---- MODULE Spec2Model ----
(***************************************************************************)
(* PalletManager utility scripts: the station-identifier normalizer of     *)
(* debug_station_lookup.py, the CSV writers update_station_csv.py and      *)
(* add_aisle.py, and the lookup simulation that reads the CSV back.        *)
(*                                                                         *)
(* A Python str is a sequence of one-character strings.  The alphabet is   *)
(* ASCII: digits, "-", "+", lower-case letters, "_" and the blank " ",     *)
(* which stands for every character str.strip() removes.                   *)
(***************************************************************************)
EXTENDS Integers, Sequences, FiniteSets, TLC

VARIABLES
    input_str,      \* argument of normalize_station_number in the pure-function runs
    result,         \* value returned by the last call of normalize_station_number
    calls,          \* number of calls made on input_str so far
    results,        \* the values returned by those calls, in call order
    stdout,         \* lines written to standard output by normalize_station_number
    csv_file,       \* android-app/app/src/main/assets/station_data.csv
    last_op,        \* the last script started: its name, arguments, the table it found, what it reported
    debug_pc,       \* position of debug_station_lookup.main
    stations_data,  \* analyze_csv_data's return value: dict aisle -> list of (station, check digit)
    lookup_db,      \* test_lookup_simulation's dict station -> check digit
    user_input,     \* the user input being looked up
    normalized,     \* normalize_station_number(user_input)
    check_digit,    \* lookup_db.get(normalized)
    complete_md,    \* station-numbers-complete.md: written by rebuild_stations, read by update_station_csv
    source_md,      \* station-numbers.md: read by rebuild_stations
    io              \* a rewrite of csv_file in progress: the open file and the rows not yet written

normVars == <<input_str, result, calls, results>>
csvVars == <<csv_file, last_op>>
debugVars == <<debug_pc, stations_data, lookup_db, user_input, normalized, check_digit>>
fileVars == <<complete_md, source_md, io>>
vars == <<input_str, result, calls, results, stdout, csv_file, last_op,
          debug_pc, stations_data, lookup_db, user_input, normalized, check_digit,
          complete_md, source_md, io>>

(***************************************************************************)
(* Bounds of the model.                                                    *)
(***************************************************************************)
MaxParts == 5       \* most hyphen-separated parts of a generated input
MaxCalls == 2       \* most calls of normalize_station_number on one input

(***************************************************************************)
(* Python str operations, as CPython computes them.                        *)
(***************************************************************************)
Digits == {"0", "1", "2", "3", "4", "5", "6", "7", "8", "9"}

\* Python's None, for dict.get misses and skipped entries.
None == <<"None">>

\* str.isdigit(): non-empty and every character a digit.
IsDigit(s) == Len(s) > 0 /\ \A i \in 1..Len(s) : s[i] \in Digits

IsSpace(c) == c = " "

RECURSIVE LStrip(_)
LStrip(s) == IF s # <<>> /\ IsSpace(Head(s)) THEN LStrip(Tail(s)) ELSE s

RECURSIVE RStrip(_)
RStrip(s) ==
    IF s # <<>> /\ IsSpace(s[Len(s)]) THEN RStrip(SubSeq(s, 1, Len(s) - 1)) ELSE s

\* str.strip()
Strip(s) == RStrip(LStrip(s))

\* str.replace("-", "")
RemoveHyphens(s) == SelectSeq(s, LAMBDA c : c # "-")

\* str.split("-"): always at least one part; empty parts are kept.
RECURSIVE SplitFrom(_, _, _)
SplitFrom(s, i, cur) ==
    IF i > Len(s) THEN <<cur>>
    ELSE IF s[i] = "-" THEN <<cur>> \o SplitFrom(s, i + 1, <<>>)
    ELSE SplitFrom(s, i + 1, Append(cur, s[i]))

Split(s) == SplitFrom(s, 1, <<>>)

RECURSIVE Zeros(_)
Zeros(n) == IF n <= 0 THEN <<>> ELSE <<"0">> \o Zeros(n - 1)

\* str.zfill(width): pads on the left with "0", after a leading sign if any.
Zfill(s, width) ==
    IF Len(s) >= width THEN s
    ELSE IF s # <<>> /\ s[1] \in {"+", "-"}
         THEN <<s[1]>> \o Zeros(width - Len(s)) \o Tail(s)
         ELSE Zeros(width - Len(s)) \o s

\* "-".join(parts)
RECURSIVE Join(_)
Join(parts) ==
    IF Len(parts) = 0 THEN <<>>
    ELSE IF Len(parts) = 1 THEN parts[1]
    ELSE parts[1] \o <<"-">> \o Join(Tail(parts))

\* f"03-{aisle}-{station}-01"
Canonical(aisle, station) ==
    <<"0", "3", "-">> \o aisle \o <<"-">> \o station \o <<"-", "0", "1">>

(***************************************************************************)
(* normalize_station_number                                                *)
(***************************************************************************)
\* cleaned = input_str.replace("-", "").strip()
Cleaned(s) == Strip(RemoveHyphens(s))

\* parts = [part.strip() for part in input_str.split("-")]
PartsOf(s) == [i \in 1..Len(Split(s)) |-> Strip(Split(s)[i])]

\* The split-on-hyphen branches without the zfill(2) of aisle and station.
NormalizeSplitNoPad(s) ==
    LET parts == PartsOf(s)
    IN  IF Len(parts) = 2 THEN Canonical(parts[1], parts[2])
        ELSE IF Len(parts) = 3
             THEN IF parts[1] = <<"0", "3">> \/ parts[1] = <<"3">>
                  THEN Canonical(parts[2], parts[3])
                  ELSE s
        ELSE IF Len(parts) = 4
             THEN IF (Zfill(parts[1], 2) = <<"0", "3">> \/ parts[1] = <<"3">>)
                     /\ (Zfill(parts[4], 2) = <<"0", "1">> \/ parts[4] = <<"1">>)
                  THEN Canonical(parts[2], parts[3])
                  ELSE s
        ELSE s

\* The split-on-hyphen branches with a four-part rule that accepts any building.
NormalizeSplitAnyBuilding(s) ==
    LET parts == PartsOf(s)
    IN  IF Len(parts) = 2
        THEN Canonical(Zfill(parts[1], 2), Zfill(parts[2], 2))
        ELSE IF Len(parts) = 3
             THEN IF parts[1] = <<"0", "3">> \/ parts[1] = <<"3">>
                  THEN Canonical(Zfill(parts[2], 2), Zfill(parts[3], 2))
                  ELSE s
        ELSE IF Len(parts) = 4
             THEN IF Zfill(parts[4], 2) = <<"0", "1">> \/ parts[4] = <<"1">>
                  THEN Canonical(Zfill(parts[2], 2), Zfill(parts[3], 2))
                  ELSE s
        ELSE s

\* The split-on-hyphen branches with a four-part rule that takes "01" only.
NormalizeSplitStrictPosition(s) ==
    LET parts == PartsOf(s)
    IN  IF Len(parts) = 2
        THEN Canonical(Zfill(parts[1], 2), Zfill(parts[2], 2))
        ELSE IF Len(parts) = 3
             THEN IF parts[1] = <<"0", "3">> \/ parts[1] = <<"3">>
                  THEN Canonical(Zfill(parts[2], 2), Zfill(parts[3], 2))
                  ELSE s
        ELSE IF Len(parts) = 4
             THEN IF (Zfill(parts[1], 2) = <<"0", "3">> \/ parts[1] = <<"3">>)
                     /\ parts[4] = <<"0", "1">>
                  THEN Canonical(Zfill(parts[2], 2), Zfill(parts[3], 2))
                  ELSE s
        ELSE s

\* The split-on-hyphen branches (lines 30-58).
NormalizeSplit(s) ==
    LET parts == PartsOf(s)
    IN  IF Len(parts) = 2
        THEN Canonical(Zfill(parts[1], 2), Zfill(parts[2], 2))
        ELSE IF Len(parts) = 3
             THEN IF parts[1] = <<"0", "3">> \/ parts[1] = <<"3">>
                  THEN Canonical(Zfill(parts[2], 2), Zfill(parts[3], 2))
                  ELSE s
        ELSE IF Len(parts) = 4
             THEN LET building == Zfill(parts[1], 2)
                      aisle == Zfill(parts[2], 2)
                      station == Zfill(parts[3], 2)
                      position == Zfill(parts[4], 2)
                  IN  IF (building = <<"0", "3">> \/ parts[1] = <<"3">>)
                         /\ (position = <<"0", "1">> \/ parts[4] = <<"1">>)
                      THEN Canonical(aisle, station)
                      ELSE s
        ELSE s

\* A normalizer that tries the split rules first and the compact rule last.
NormalizeSplitFirst(s) ==
    LET cleaned == Cleaned(s)
    IN  IF Len(PartsOf(s)) \in {2, 3, 4} THEN NormalizeSplit(s)
        ELSE IF Len(cleaned) = 4 /\ IsDigit(cleaned)
             THEN Canonical(SubSeq(cleaned, 1, 2), SubSeq(cleaned, 3, 4))
        ELSE s

\* A normalizer whose compact rule forgets the length test.
NormalizeNoLenCheck(s) ==
    LET cleaned == Cleaned(s)
    IN  IF Len(cleaned) >= 4 /\ IsDigit(cleaned)
        THEN Canonical(SubSeq(cleaned, 1, 2), SubSeq(cleaned, 3, 4))
        ELSE NormalizeSplit(s)

normalize_station_number(s) ==
    LET cleaned == Cleaned(s)
    IN  IF Len(cleaned) = 4 /\ IsDigit(cleaned)
        THEN Canonical(SubSeq(cleaned, 1, 2), SubSeq(cleaned, 3, 4))
        ELSE NormalizeSplit(s)

\* Trace lines without the Output line of the early return (line 27).
TraceLinesNoEarlyOutput(s, r) ==
    IF Len(Cleaned(s)) = 4 /\ IsDigit(Cleaned(s))
    THEN << [tag |-> "normalizeStationNumber: Input = ", text |-> s] >>
    ELSE << [tag |-> "normalizeStationNumber: Input = ", text |-> s],
            [tag |-> "normalizeStationNumber: Output = ", text |-> r] >>

\* The two trace lines a call prints (lines 17 and 27/60).
TraceLines(s, r) ==
    << [tag |-> "normalizeStationNumber: Input = ", text |-> s],
       [tag |-> "normalizeStationNumber: Output = ", text |-> r] >>

(***************************************************************************)
(* Inputs of the normalizer: hyphen-joined parts from a fixed part set,    *)
(* and some whole strings.                                                 *)
(***************************************************************************)
PartSet ==
    { <<>>, <<"1">>, <<"3">>, <<"5">>, <<"0", "1">>, <<"0", "3">>, <<"0", "4">>,
      <<"5", "8">>, <<"2", "2">>, <<"8", "2", "2">>, <<"a">>, <<"+">>,
      <<" ", "3">>, <<"1", " ">> }

LongPartSet == { <<"3">>, <<"0", "1">>, <<"5", "8">> }

WholeSet ==
    { <<"5", "8", "2", "2">>, <<" ", "5", "8", "2", "2", " ">>,
      <<"5", "8", " ", "2", "2">>, <<"5", "8", "2", "2", "1">>,
      <<"5", "8", "a", "2">>, <<" ">> }

PartsFor(n) == IF n <= 4 THEN PartSet ELSE LongPartSet

Inputs ==
    WholeSet \cup
    UNION { { Join(f) : f \in [1..n -> PartsFor(n)] } : n \in 1..MaxParts }

(***************************************************************************)
(* The pure-function runs: one input, normalize_station_number called on   *)
(* it up to MaxCalls times.                                                *)
(***************************************************************************)
NoTable == [exists |-> FALSE, rows |-> <<>>]
NoOp == [name |-> "none"]

\* A text file that does not exist; an existing one is the sequence of its lines.
NoText == [exists |-> FALSE, lines |-> <<>>]

\* No rewrite of csv_file in progress.
NoIo == [pc |-> "closed", op |-> "", old |-> NoTable, new |-> <<>>]

InitRest ==
    /\ stdout = <<>>
    /\ csv_file = NoTable
    /\ last_op = NoOp
    /\ debug_pc = "idle"
    /\ stations_data = <<>>
    /\ lookup_db = <<>>
    /\ user_input = None
    /\ normalized = None
    /\ check_digit = None
    /\ complete_md = NoText
    /\ source_md = NoText
    /\ io = NoIo

InitNorm ==
    /\ input_str \in Inputs
    /\ result = None
    /\ calls = 0
    /\ results = <<>>
    /\ InitRest

NormalizeCall ==
    /\ calls < MaxCalls
    /\ result' = normalize_station_number(input_str)
    /\ results' = Append(results, result')
    /\ calls' = calls + 1
    /\ stdout' = stdout \o TraceLines(input_str, result')
    /\ UNCHANGED <<input_str, csvVars, debugVars, fileVars>>

NextNorm == NormalizeCall

SpecNorm == InitNorm /\ [][NextNorm]_vars

(***************************************************************************)
(* station_data.csv: a file that may not exist; when it does, a sequence   *)
(* of rows, each a sequence of fields.  The fields written here hold only  *)
(* digits, hyphens and the header's letters, which csv.writer writes       *)
(* unquoted and csv.reader reads back as written.                          *)
(***************************************************************************)
MaxMd == 2          \* most (station, check digit) pairs in one markdown extraction
MaxDigits == 2      \* most entries of one add_aisle_to_csv check-digit list
MaxRows == 2        \* most data rows add_aisle_to_csv is run up to

station_number == <<"s", "t", "a", "t", "i", "o", "n", "_", "n", "u", "m", "b", "e", "r">>
check_digit_col == <<"c", "h", "e", "c", "k", "_", "d", "i", "g", "i", "t">>
Header == <<station_number, check_digit_col>>

\* Code points of the characters that occur in sorted fields.
Ord(c) ==
    CASE c = " " -> 32
      [] c = "+" -> 43
      [] c = "-" -> 45
      [] c = "0" -> 48 [] c = "1" -> 49 [] c = "2" -> 50 [] c = "3" -> 51
      [] c = "4" -> 52 [] c = "5" -> 53 [] c = "6" -> 54 [] c = "7" -> 55
      [] c = "8" -> 56 [] c = "9" -> 57
      [] c = "N" -> 78
      [] c = "_" -> 95
      [] OTHER -> 97

\* Python's str < str: lexicographic by code point.
RECURSIVE StrLessFrom(_, _, _)
StrLessFrom(a, b, i) ==
    IF i > Len(b) THEN FALSE
    ELSE IF i > Len(a) THEN TRUE
    ELSE IF a[i] # b[i] THEN Ord(a[i]) < Ord(b[i])
    ELSE StrLessFrom(a, b, i + 1)

StrLess(a, b) == StrLessFrom(a, b, 1)

\* list.sort(key=lambda x: x[0]) and sorted() of items with distinct keys:
\* a stable sort on the first field.
RECURSIVE InsertSorted(_, _)
InsertSorted(sorted, row) ==
    IF sorted = <<>> THEN <<row>>
    ELSE IF StrLess(row[1], Head(sorted)[1]) THEN <<row>> \o sorted
    ELSE <<Head(sorted)>> \o InsertSorted(Tail(sorted), row)

RECURSIVE SortByFirst(_)
SortByFirst(rows) ==
    IF rows = <<>> THEN <<>>
    ELSE InsertSorted(SortByFirst(SubSeq(rows, 1, Len(rows) - 1)), rows[Len(rows)])

\* A dict is the sequence of its (key, value) items in insertion order.
DictHas(d, k) == \E i \in 1..Len(d) : d[i][1] = k

DictGet(d, k) ==
    IF DictHas(d, k) THEN d[CHOOSE i \in 1..Len(d) : d[i][1] = k][2] ELSE None

DictSet(d, k, v) ==
    IF DictHas(d, k)
    THEN [i \in 1..Len(d) |-> IF d[i][1] = k THEN <<k, v>> ELSE d[i]]
    ELSE Append(d, <<k, v>>)

\* csv.DictReader: the first row names the columns; empty rows are skipped; a
\* row is a dict from column name to field, None for a missing field.
DataRows(file) ==
    IF file.rows = <<>> THEN <<>>
    ELSE SelectSeq(Tail(file.rows), LAMBDA r : r # <<>>)

HasColumn(file, col) ==
    file.rows # <<>> /\ \E i \in 1..Len(file.rows[1]) : file.rows[1][i] = col

Field(file, row, col) ==
    LET i == CHOOSE j \in 1..Len(file.rows[1]) :
                 /\ file.rows[1][j] = col
                 /\ \A k \in (j + 1)..Len(file.rows[1]) : file.rows[1][k] # col
    IN  IF i <= Len(row) THEN row[i] ELSE None

(***************************************************************************)
(* update_android_csv                                                      *)
(***************************************************************************)
\* Lines 41-47: existing_data, keyed by station_number; a later row of the
\* same station replaces the earlier one.
RECURSIVE ReadExistingFrom(_, _, _)
ReadExistingFrom(file, rows, d) ==
    IF rows = <<>> THEN d
    ELSE ReadExistingFrom(file, Tail(rows),
            DictSet(d, Field(file, Head(rows), station_number),
                       Field(file, Head(rows), check_digit_col)))

\* A run that does not read the old table.
ReadExistingNothing(file) == <<>>

ReadExisting(file) ==
    IF file.exists THEN ReadExistingFrom(file, DataRows(file), <<>>) ELSE <<>>

\* row['station_number'] or row['check_digit'] raises KeyError.
ReadRaises(file) ==
    /\ file.exists
    /\ DataRows(file) # <<>>
    /\ ~(HasColumn(file, station_number) /\ HasColumn(file, check_digit_col))

\* A merge in which a station already in the table keeps its old check digit.
RECURSIVE MergeFirstWins(_, _, _, _)
MergeFirstWins(d, data, new_count, updated_count) ==
    IF data = <<>>
    THEN [data |-> d, new_count |-> new_count, updated_count |-> updated_count]
    ELSE LET station == Head(data)[1]
             digit == Head(data)[2]
         IN  IF DictHas(d, station)
             THEN MergeFirstWins(d, Tail(data), new_count,
                      IF DictGet(d, station) # digit
                      THEN updated_count + 1 ELSE updated_count)
             ELSE MergeFirstWins(DictSet(d, station, digit), Tail(data),
                      new_count + 1, updated_count)

\* Lines 50-60: the markdown pairs applied in order to existing_data.
RECURSIVE Merge(_, _, _, _)
Merge(d, data, new_count, updated_count) ==
    IF data = <<>>
    THEN [data |-> d, new_count |-> new_count, updated_count |-> updated_count]
    ELSE LET station == Head(data)[1]
             digit == Head(data)[2]
         IN  IF DictHas(d, station)
             THEN Merge(DictSet(d, station, digit), Tail(data), new_count,
                      IF DictGet(d, station) # digit
                      THEN updated_count + 1 ELSE updated_count)
             ELSE Merge(DictSet(d, station, digit), Tail(data),
                      new_count + 1, updated_count)

\* A write that keeps the dict's insertion order.
WriteTableUnsorted(d) == [exists |-> TRUE, rows |-> <<Header>> \o d]

\* Lines 63-70: the header, then the items sorted by station number.
WriteTable(d) == [exists |-> TRUE, rows |-> <<Header>> \o SortByFirst(d)]

\* A (station, check digit) pair as the regex of extract_check_digits_from_md
\* captures it: a canonical code and a run of digits.
MdCodes ==
    { <<"0", "3", "-", "5", "8", "-", "2", "2", "-", "0", "1">>,
      <<"0", "3", "-", "4", "0", "-", "1", "5", "-", "0", "1">> }

MdDigits == { <<"4", "2">>, <<"7">> }

MdPairs == { <<c, d>> : c \in MdCodes, d \in MdDigits }

StationData == UNION { [1..n -> MdPairs] : n \in 1..MaxMd }

csv_idle == debug_pc = "idle"

update_android_csv(station_data) ==
    /\ csv_idle
    /\ IF ReadRaises(csv_file)
       THEN /\ last_op' = [name |-> "update_android_csv", station_data |-> station_data,
                           before |-> csv_file, returned |-> FALSE,
                           new_count |-> 0, updated_count |-> 0, total |-> 0]
            /\ UNCHANGED csv_file
       ELSE LET existing_data == ReadExisting(csv_file)
                merged == Merge(existing_data, station_data, 0, 0)
            IN  /\ csv_file' = WriteTable(merged.data)
                /\ last_op' = [name |-> "update_android_csv",
                               station_data |-> station_data,
                               before |-> csv_file, returned |-> TRUE,
                               new_count |-> merged.new_count,
                               updated_count |-> merged.updated_count,
                               total |-> Len(merged.data)]
    /\ UNCHANGED <<normVars, stdout, debugVars, fileVars>>

(***************************************************************************)
(* add_aisle_to_csv                                                        *)
(***************************************************************************)
DigitChar(n) ==
    CASE n = 0 -> "0" [] n = 1 -> "1" [] n = 2 -> "2" [] n = 3 -> "3"
      [] n = 4 -> "4" [] n = 5 -> "5" [] n = 6 -> "6" [] n = 7 -> "7"
      [] n = 8 -> "8" [] n = 9 -> "9"

\* str(n) for n >= 0
RECURSIVE Str(_)
Str(n) == IF n < 10 THEN <<DigitChar(n)>> ELSE Str(n \div 10) \o <<DigitChar(n % 10)>>

\* f"{n:02d}" for n >= 0
Format02d(n) == Zfill(Str(n), 2)

\* An entry of the check-digit list: an int, or None for a skipped position.
NoneEntry == [is_none |-> TRUE, value |-> 0]
IntEntry(n) == [is_none |-> FALSE, value |-> n]

\* Python truth value of an entry: None and 0 are false.
Truthy(x) == ~x.is_none /\ x.value # 0

\* Lines 26-30: one row per position whose entry is true.
RECURSIVE NewStations(_, _, _)
NewStations(aisle_number, check_digits, i) ==
    IF i > Len(check_digits) THEN <<>>
    ELSE (IF Truthy(check_digits[i])
          THEN << <<Format02d(aisle_number) \o <<"-">> \o Format02d(i),
                    Str(check_digits[i].value)>> >>
          ELSE <<>>)
         \o NewStations(aisle_number, check_digits, i + 1)

\* list(csv.reader(csvfile)): every row, the header included.
ReadAllRows(file) == IF file.exists THEN file.rows ELSE <<>>

\* existing_data[1:]
DropFirst(rows) == IF rows = <<>> THEN <<>> ELSE Tail(rows)

AisleNumbers == {58}
CheckDigitEntries == {NoneEntry, IntEntry(0), IntEntry(7)}
CheckDigitLists == UNION { [1..n -> CheckDigitEntries] : n \in 0..MaxDigits }

add_aisle_to_csv(aisle_number, check_digits) ==
    LET existing_data == ReadAllRows(csv_file)
        new_stations == NewStations(aisle_number, check_digits, 1)
        all_data == SortByFirst(DropFirst(existing_data) \o new_stations)
    IN  /\ csv_idle
        /\ Len(all_data) <= MaxRows
        /\ csv_file' = [exists |-> TRUE, rows |-> <<Header>> \o all_data]
        /\ last_op' = [name |-> "add_aisle_to_csv", aisle_number |-> aisle_number,
                       check_digits |-> check_digits, before |-> csv_file,
                       added |-> Len(new_stations)]
        /\ UNCHANGED <<normVars, stdout, debugVars, fileVars>>

(***************************************************************************)
(* debug_station_lookup: analyze_csv_data, test_lookup_simulation, main    *)
(***************************************************************************)
\* re.match(r'^03-\d{2}-\d{2}-01$', s) on a string without line breaks.
IsCanonical(s) ==
    /\ Len(s) = 11
    /\ SubSeq(s, 1, 3) = <<"0", "3", "-">>
    /\ s[4] \in Digits /\ s[5] \in Digits
    /\ s[6] = "-"
    /\ s[7] \in Digits /\ s[8] \in Digits
    /\ SubSeq(s, 9, 11) = <<"-", "0", "1">>

\* Python truth value of a field: None and "" are false.
FieldTruthy(x) == x # None /\ x # <<>>

\* stations[aisle].append((station, check_digit)), creating the list if needed.
AppendStation(stations, aisle, pair) ==
    IF DictHas(stations, aisle)
    THEN DictSet(stations, aisle, Append(DictGet(stations, aisle), pair))
    ELSE DictSet(stations, aisle, <<pair>>)

\* Lines 75-94: the pass over the rows; row_num starts at 2.
RECURSIVE AnalyzeRows(_, _, _, _, _)
AnalyzeRows(file, rows, row_num, stations, issues) ==
    IF rows = <<>> THEN [stations |-> stations, issues |-> issues, raised |-> FALSE]
    ELSE LET station == Field(file, Head(rows), station_number)
             digit == Field(file, Head(rows), check_digit_col)
         IN  IF ~FieldTruthy(station) \/ ~FieldTruthy(digit)
             THEN AnalyzeRows(file, Tail(rows), row_num + 1, stations,
                      Append(issues, [row |-> row_num, kind |-> "empty"]))
             ELSE LET issues1 ==
                          IF IsCanonical(station) THEN issues
                          ELSE Append(issues, [row |-> row_num, kind |-> "format"])
                      issues2 ==
                          IF IsDigit(digit) THEN issues1
                          ELSE Append(issues1, [row |-> row_num, kind |-> "digit"])
                  IN  IF Len(Split(station)) < 2
                      THEN [stations |-> stations, issues |-> issues2, raised |-> TRUE]
                      ELSE AnalyzeRows(file, Tail(rows), row_num + 1,
                               AppendStation(stations, Split(station)[2],
                                             <<station, digit>>),
                               issues2)

\* The value analyze_csv_data returns: the stations, or {} after any exception
\* (no file, a missing column, a station without a hyphen).
analyze_csv_data(file) ==
    IF ~file.exists THEN <<>>
    ELSE IF ReadRaises(file) THEN <<>>
    ELSE LET r == AnalyzeRows(file, DataRows(file), 2, <<>>, <<>>)
         IN  IF r.raised THEN <<>> ELSE r.stations

\* Lines 103-108: the issues analyze_csv_data reports; after an exception the
\* pass is left through line 114 and none is reported.
analyze_csv_issues(file) ==
    IF ~file.exists THEN <<>>
    ELSE IF ReadRaises(file) THEN <<>>
    ELSE LET r == AnalyzeRows(file, DataRows(file), 2, <<>>, <<>>)
         IN  IF r.raised THEN <<>> ELSE r.issues

\* Lines 166-169: lookup_db[station] = check_digit over every aisle's list.
RECURSIVE AddAll(_, _)
AddAll(db, station_list) ==
    IF station_list = <<>> THEN db
    ELSE AddAll(DictSet(db, Head(station_list)[1], Head(station_list)[2]),
                Tail(station_list))

RECURSIVE BuildLookupDb(_, _)
BuildLookupDb(db, stations) ==
    IF stations = <<>> THEN db
    ELSE BuildLookupDb(AddAll(db, Head(stations)[2]), Tail(stations))

\* The input forms a user may type for aisle AA and station SS.
LookupCodes == { <<<<"5", "8">>, <<"2", "2">>>>, <<<<"4", "0">>, <<"1", "5">>>>,
                 <<<<"0", "3">>, <<"0", "1">>>> }

Forms(aa, ss) ==
    { aa \o ss,
      aa \o <<"-">> \o ss,
      <<"0", "3", "-">> \o aa \o <<"-">> \o ss,
      <<"3", "-">> \o aa \o <<"-">> \o ss \o <<"-", "1">>,
      <<"0", "3", "-">> \o aa \o <<"-">> \o ss \o <<"-", "0", "1">> }

LookupInputs ==
    UNION { Forms(c[1], c[2]) : c \in LookupCodes }
    \cup { <<"5", "8", "-", "2", "2", "-", "0", "1">>, <<"5", "8", "2">> }

\* main, lines 200-204: analyze; stop when nothing was loaded.
DebugAnalyze ==
    /\ debug_pc = "idle"
    /\ stations_data' = analyze_csv_data(csv_file)
    /\ debug_pc' = IF stations_data' = <<>> THEN "idle" ELSE "analyzed"
    /\ last_op' = [name |-> "debug_station_lookup",
                   stations |-> analyze_csv_data(csv_file),
                   issues |-> analyze_csv_issues(csv_file)]
    /\ UNCHANGED <<normVars, stdout, fileVars, csv_file, lookup_db, user_input, normalized,
                   check_digit>>

\* test_lookup_simulation, lines 166-169.
DebugBuildLookup ==
    /\ debug_pc = "analyzed"
    /\ lookup_db' = BuildLookupDb(<<>>, stations_data)
    /\ debug_pc' = "lookup"
    /\ UNCHANGED <<normVars, stdout, fileVars, csvVars, stations_data, user_input, normalized,
                   check_digit>>

\* test_lookup_simulation, lines 186-188, for one user input.
DebugLookup(u) ==
    /\ debug_pc = "lookup"
    /\ user_input' = u
    /\ normalized' = normalize_station_number(u)
    /\ check_digit' = DictGet(lookup_db, normalized')
    /\ UNCHANGED <<normVars, stdout, fileVars, csvVars, debug_pc, stations_data, lookup_db>>

\* main returns.
DebugDone ==
    /\ debug_pc = "lookup"
    /\ debug_pc' = "idle"
    /\ stations_data' = <<>>
    /\ lookup_db' = <<>>
    /\ user_input' = None
    /\ normalized' = None
    /\ check_digit' = None
    /\ UNCHANGED <<normVars, stdout, fileVars, csvVars>>

(***************************************************************************)
(* The scripts run one after another on the same CSV file.                 *)
(***************************************************************************)
Init ==
    /\ input_str = <<>>
    /\ result = None
    /\ calls = 0
    /\ results = <<>>
    /\ InitRest

UpdateAndroidCsv == \E station_data \in StationData : update_android_csv(station_data)

AddAisleToCsv ==
    \E aisle_number \in AisleNumbers, check_digits \in CheckDigitLists :
        add_aisle_to_csv(aisle_number, check_digits)

TestLookup == \E u \in LookupInputs : DebugLookup(u)

Next ==
    \/ UpdateAndroidCsv
    \/ AddAisleToCsv
    \/ DebugAnalyze
    \/ DebugBuildLookup
    \/ TestLookup
    \/ DebugDone

Spec == Init /\ [][Next]_vars

(***************************************************************************)
(* update_station_csv: extract_check_digits_from_md and main, run on       *)
(* station-numbers-complete.md.  A text file is the sequence of its lines. *)
(***************************************************************************)
MaxLines == 2       \* most lines of a markdown document

\* (\d+): the longest run of digits from position i.
RECURSIVE DigitRun(_, _)
DigitRun(line, i) ==
    IF i <= Len(line) /\ line[i] \in Digits
    THEN <<line[i]>> \o DigitRun(line, i + 1)
    ELSE <<>>

\* The pattern with \d* for the check digit: a template line matches too.
LineMatchesStar(line) ==
    /\ Len(line) >= 13
    /\ IsCanonical(SubSeq(line, 1, 11))
    /\ line[12] = "-" /\ line[13] = "-"

\* ^(03-\d{2}-\d{2}-01)--(\d+) under re.MULTILINE matches at the start of a
\* line and nowhere else; nothing anchors the end of the match.
LineMatches(line) ==
    /\ Len(line) >= 14
    /\ IsCanonical(SubSeq(line, 1, 11))
    /\ line[12] = "-" /\ line[13] = "-"
    /\ line[14] \in Digits

\* pattern.findall(content): the two groups of every match, in order.
RECURSIVE FindAll(_)
FindAll(lines) ==
    IF lines = <<>> THEN <<>>
    ELSE (IF LineMatches(Head(lines))
          THEN << <<SubSeq(Head(lines), 1, 11), DigitRun(Head(lines), 14)>> >>
          ELSE <<>>)
         \o FindAll(Tail(lines))

\* Lines 15-33: None when the file is missing or nothing matches.
extract_check_digits_from_md(file) ==
    IF ~file.exists THEN None
    ELSE IF FindAll(file.lines) = <<>> THEN None
    ELSE FindAll(file.lines)

\* not station_data: None and the empty list are false.
NoStationData(station_data) == station_data = None \/ station_data = <<>>

\* main, lines 88-110: stop with status 1 when nothing was extracted; else
\* run update_android_csv and return 0 when it succeeded, 1 when it did not.
update_station_csv_main ==
    LET station_data == extract_check_digits_from_md(complete_md)
    IN  IF NoStationData(station_data)
        THEN /\ csv_idle
             /\ last_op' = [name |-> "update_station_csv", before |-> csv_file,
                            exit_status |-> 1]
             /\ UNCHANGED <<csv_file, normVars, stdout, debugVars, fileVars>>
        ELSE update_android_csv(station_data)

ExitStatus(op) ==
    IF op.name = "update_station_csv" THEN op.exit_status
    ELSE IF op.returned THEN 0 ELSE 1

\* Lines a hand-edited document holds.
LineSet ==
    { <<"0", "3", "-", "5", "8", "-", "2", "2", "-", "0", "1", "-", "-", "4", "2">>,
      <<"0", "3", "-", "5", "8", "-", "2", "2", "-", "0", "1", "-", "-", "7">>,
      <<"0", "3", "-", "4", "0", "-", "1", "5", "-", "0", "1", "-", "-", "4", "2">>,
      <<"0", "3", "-", "4", "0", "-", "1", "5", "-", "0", "1", "-", "-">>,
      <<"#", "#", " ", "D", "i", "s", "t", "r", "i", "c", "t", " ", "0", "3", "-", "5", "8", " ", "S", "e", "r", "i", "e", "s">>,
      <<" ", "0", "3", "-", "5", "8", "-", "2", "2", "-", "0", "1", "-", "-", "4", "2">>,
      <<"0", "3", "-", "4", "0", "-", "1", "5", "-", "0", "1", "-", "-", "7", " ", "o", "k">> }

MdFiles ==
    {NoText} \cup
    UNION { { [exists |-> TRUE, lines |-> f] : f \in [1..n -> LineSet] } : n \in 0..MaxLines }

\* Tables an earlier run of update_android_csv left behind.
EarlierTables ==
    {NoTable} \cup { WriteTable(Merge(<<>>, sd, 0, 0).data) : sd \in StationData }

InitMd ==
    /\ complete_md \in MdFiles
    /\ csv_file \in EarlierTables
    /\ input_str = <<>> /\ result = None /\ calls = 0 /\ results = <<>>
    /\ stdout = <<>>
    /\ last_op = NoOp
    /\ debug_pc = "idle" /\ stations_data = <<>> /\ lookup_db = <<>>
    /\ user_input = None /\ normalized = None /\ check_digit = None
    /\ source_md = NoText
    /\ io = NoIo

NextMd == update_station_csv_main

SpecMd == InitMd /\ [][NextMd]_vars

(***************************************************************************)
(* The rewrite of the table step by step: open(csv_path, 'w') truncates    *)
(* the file, each writerow adds a row, leaving the with block closes it.   *)
(* An exception (an I/O error, the process being stopped) can end the run  *)
(* before the open or between any two of these steps.                      *)
(***************************************************************************)
io_free == csv_idle /\ io.pc # "writing"

\* Lines 63-65 of update_android_csv, 37-39 of add_aisle_to_csv: the file is
\* created or truncated to nothing; new_rows are the rows still to be written.
OpenForWriting(op, new_rows) ==
    /\ csv_file' = [exists |-> TRUE, rows |-> <<>>]
    /\ io' = [pc |-> "writing", op |-> op, old |-> csv_file, new |-> new_rows]

\* The run ends while reading or merging: nothing was opened for writing.
FailBeforeOpen(op, new_rows) ==
    /\ io' = [pc |-> "failed", op |-> op, old |-> csv_file, new |-> new_rows]
    /\ UNCHANGED csv_file

IoUpdateBegin ==
    \E station_data \in StationData, fails \in BOOLEAN :
        /\ io_free
        /\ LET new_rows == WriteTable(Merge(ReadExisting(csv_file), station_data, 0, 0).data).rows
           IN  IF ReadRaises(csv_file) THEN FailBeforeOpen("update_android_csv", csv_file.rows)
               ELSE IF fails THEN FailBeforeOpen("update_android_csv", new_rows)
               ELSE OpenForWriting("update_android_csv", new_rows)
        /\ UNCHANGED <<normVars, stdout, last_op, debugVars, complete_md, source_md>>

IoAddAisleBegin ==
    \E aisle_number \in AisleNumbers, check_digits \in CheckDigitLists, fails \in BOOLEAN :
        LET all_data == SortByFirst(DropFirst(ReadAllRows(csv_file))
                                        \o NewStations(aisle_number, check_digits, 1))
        IN  /\ io_free
            /\ Len(all_data) <= MaxRows
            /\ IF fails THEN FailBeforeOpen("add_aisle_to_csv", <<Header>> \o all_data)
               ELSE OpenForWriting("add_aisle_to_csv", <<Header>> \o all_data)
            /\ UNCHANGED <<normVars, stdout, last_op, debugVars, complete_md, source_md>>

\* writer.writerow / writer.writerows: the next row reaches the file.
IoWriteRow ==
    /\ io.pc = "writing"
    /\ Len(csv_file.rows) < Len(io.new)
    /\ csv_file' = [csv_file EXCEPT !.rows = Append(@, io.new[Len(csv_file.rows) + 1])]
    /\ UNCHANGED <<normVars, stdout, last_op, debugVars, fileVars>>

\* The with block is left after the last row.
IoClose ==
    /\ io.pc = "writing"
    /\ Len(csv_file.rows) = Len(io.new)
    /\ io' = [io EXCEPT !.pc = "done"]
    /\ UNCHANGED <<normVars, stdout, csv_file, last_op, debugVars, complete_md, source_md>>

\* An exception inside the with block: the file is closed as it is;
\* update_android_csv returns False (lines 78-80), add_aisle_to_csv raises.
IoFail ==
    /\ io.pc = "writing"
    /\ io' = [io EXCEPT !.pc = "failed"]
    /\ UNCHANGED <<normVars, stdout, csv_file, last_op, debugVars, complete_md, source_md>>

NextIO ==
    \/ IoUpdateBegin
    \/ IoAddAisleBegin
    \/ IoWriteRow
    \/ IoClose
    \/ IoFail

SpecIO == Init /\ [][NextIO]_vars

(***************************************************************************)
(* debug_station_lookup run on a table that was edited by hand.            *)
(***************************************************************************)
\* Data rows of a hand-edited table: two valid rows, a row without its second
\* column, an empty field, a short station code with and without a hyphen, a
\* check digit that is not a number.
RowSet ==
    { <<<<"0", "3", "-", "5", "8", "-", "2", "2", "-", "0", "1">>, <<"4", "2">>>>,
      <<<<"0", "3", "-", "4", "0", "-", "1", "5", "-", "0", "1">>, <<"7">>>>,
      <<<<"0", "3", "-", "5", "8", "-", "2", "2", "-", "0", "1">>>>,
      <<<<"0", "3", "-", "5", "8", "-", "2", "2", "-", "0", "1">>, <<>>>>,
      <<<<"5", "8", "-", "2", "2">>, <<"4", "2">>>>,
      <<<<"5", "8", "2", "2">>, <<"4", "2">>>>,
      <<<<"0", "3", "-", "4", "0", "-", "1", "5", "-", "0", "1">>, <<"4", "a">>>> }

EditedTables ==
    {NoTable} \cup
    UNION { { [exists |-> TRUE, rows |-> <<Header>> \o f] : f \in [1..n -> RowSet] }
              : n \in 0..MaxRows }

InitAnalyze ==
    /\ csv_file \in EditedTables
    /\ input_str = <<>> /\ result = None /\ calls = 0 /\ results = <<>>
    /\ stdout = <<>>
    /\ last_op = NoOp
    /\ debug_pc = "idle" /\ stations_data = <<>> /\ lookup_db = <<>>
    /\ user_input = None /\ normalized = None /\ check_digit = None
    /\ complete_md = NoText /\ source_md = NoText
    /\ io = NoIo

NextAnalyze ==
    \/ DebugAnalyze
    \/ DebugBuildLookup
    \/ TestLookup
    \/ DebugDone

SpecAnalyze == InitAnalyze /\ [][NextAnalyze]_vars

(***************************************************************************)
(* rebuild_stations: station-numbers.md is parsed and                      *)
(* station-numbers-complete.md is written.  A source document holds the    *)
(* header pattern as a whole line or not at all.                           *)
(***************************************************************************)
MaxSourceLines == 3     \* most lines of a source document
LastDistrict == 58      \* range(1, 59)
LastStation == 63       \* range(1, 64)

\* int(s) for a string of digits
RECURSIVE ParseInt(_)
ParseInt(s) ==
    IF s = <<>> THEN 0
    ELSE 10 * ParseInt(SubSeq(s, 1, Len(s) - 1))
         + (CHOOSE n \in 0..9 : DigitChar(n) = s[Len(s)])

\* A line that is a match of ## District 03-(\d+) Series.
IsHeaderLine(line) ==
    /\ Len(line) > 22
    /\ SubSeq(line, 1, 15) = <<"#", "#", " ", "D", "i", "s", "t", "r", "i", "c", "t", " ", "0", "3", "-">>
    /\ SubSeq(line, Len(line) - 6, Len(line)) = <<" ", "S", "e", "r", "i", "e", "s">>
    /\ \A i \in 16..(Len(line) - 7) : line[i] \in Digits

HeaderDistrict(line) == ParseInt(SubSeq(line, 16, Len(line) - 7))

StartsWith03(line) == Len(line) >= 3 /\ SubSeq(line, 1, 3) = <<"0", "3", "-">>

\* Lines 38-49: each header starts the list of its district anew; the lines
\* below it that start with 03- once stripped are its station lines.
RECURSIVE ParseSections(_, _, _)
ParseSections(lines, district_num, existing_data) ==
    IF lines = <<>> THEN existing_data
    ELSE IF IsHeaderLine(Head(lines))
    THEN ParseSections(Tail(lines), HeaderDistrict(Head(lines)),
             DictSet(existing_data, HeaderDistrict(Head(lines)), <<>>))
    ELSE IF district_num # 0 /\ StartsWith03(Strip(Head(lines)))
    THEN ParseSections(Tail(lines), district_num,
             DictSet(existing_data, district_num,
                     Append(DictGet(existing_data, district_num), Strip(Head(lines)))))
    ELSE ParseSections(Tail(lines), district_num, existing_data)

\* {} when the source file is missing or cannot be read.
parse_existing_data(file) ==
    IF ~file.exists THEN <<>> ELSE ParseSections(file.lines, 0, <<>>)

TemplateLine(aisle_num, station) ==
    <<"0", "3", "-">> \o Format02d(aisle_num) \o <<"-">> \o Format02d(station) \o <<"-", "0", "1", "-", "-">>

\* Lines 9-21: the header, the district's existing lines or else the template
\* lines, and an empty line.
generate_district_section(aisle_num, existing_data) ==
    <<<<"#", "#", " ", "D", "i", "s", "t", "r", "i", "c", "t", " ", "0", "3", "-">> \o Format02d(aisle_num) \o <<" ", "S", "e", "r", "i", "e", "s">>>>
    \o (IF existing_data # <<>> /\ DictHas(existing_data, aisle_num)
        THEN DictGet(existing_data, aisle_num)
        ELSE [station \in 1..LastStation |-> TemplateLine(aisle_num, station)])
    \o << <<>> >>

RECURSIVE Districts(_, _)
Districts(aisle, existing_data) ==
    IF aisle > LastDistrict THEN <<>>
    ELSE generate_district_section(aisle, existing_data)
         \o Districts(aisle + 1, existing_data)

\* Lines 66-77: the lines of complete_content.
CompleteContent(existing_data) ==
    <<<<"#", " ", "S", "t", "a", "t", "i", "o", "n", " ", "N", "u", "m", "b", "e", "r", "s", " ", "-", " ", "O", "r", "g", "a", "n", "i", "z", "e", "d", " ", "a", "n", "d", " ", "S", "o", "r", "t", "e", "d">>, <<>>>>
    \o Districts(1, existing_data)
    \o <<<<"#", "#", " ", "S", "u", "m", "m", "a", "r", "y">>,
         <<"*", "*", "B", "u", "i", "l", "d", "i", "n", "g", " ", "3", " ", "C", "o", "m", "p", "l", "e", "t", "e", " ", "C", "o", "v", "e", "r", "a", "g", "e", ":", "*", "*">>,
         <<"-", " ", "D", "i", "s", "t", "r", "i", "c", "t", "s", " ", "0", "3", "-", "0", "1", " ", "t", "h", "r", "o", "u", "g", "h", " ", "0", "3", "-", "5", "8", " ", "(", "5", "8", " ", "a", "i", "s", "l", "e", "s", ")">>,
         <<"-", " ", "E", "a", "c", "h", " ", "d", "i", "s", "t", "r", "i", "c", "t", " ", "c", "o", "n", "t", "a", "i", "n", "s", " ", "s", "t", "a", "t", "i", "o", "n", "s", " ", "0", "1", "-", "6", "3", " ", "(", "6", "3", " ", "s", "t", "a", "t", "i", "o", "n", "s", " ", "p", "e", "r", " ", "a", "i", "s", "l", "e", ")">>,
         <<"-", " ", "T", "o", "t", "a", "l", " ", "s", "t", "a", "t", "i", "o", "n", "s", ":", " ">> \o Str(58 * 63) \o <<" ", "s", "t", "a", "t", "i", "o", "n", "s">>>>

rebuild_stations_main ==
    LET existing_data == parse_existing_data(source_md)
    IN  /\ complete_md' = [exists |-> TRUE, lines |-> CompleteContent(existing_data)]
        /\ last_op' = [name |-> "rebuild_stations", existing_data |-> existing_data]
        /\ UNCHANGED <<normVars, stdout, csv_file, debugVars, source_md, io>>

\* Lines of a station-numbers.md kept by hand.
SourceLineSet ==
    { <<"#", "#", " ", "D", "i", "s", "t", "r", "i", "c", "t", " ", "0", "3", "-", "0", "5", " ", "S", "e", "r", "i", "e", "s">>,
      <<"#", "#", " ", "D", "i", "s", "t", "r", "i", "c", "t", " ", "0", "3", "-", "5", " ", "S", "e", "r", "i", "e", "s">>,
      <<"#", "#", " ", "D", "i", "s", "t", "r", "i", "c", "t", " ", "0", "3", "-", "6", "0", " ", "S", "e", "r", "i", "e", "s">>,
      <<"0", "3", "-", "0", "5", "-", "0", "1", "-", "0", "1", "-", "-", "4", "2">>,
      <<" ", " ", "0", "3", "-", "0", "5", "-", "0", "2", "-", "0", "1", "-", "-", "7">>,
      <<"n", "o", "t", "e", "s">> }

SourceFiles ==
    {NoText} \cup
    UNION { { [exists |-> TRUE, lines |-> f] : f \in [1..n -> SourceLineSet] }
              : n \in 0..MaxSourceLines }

InitRebuild ==
    /\ source_md \in SourceFiles
    /\ complete_md = NoText
    /\ csv_file = NoTable
    /\ input_str = <<>> /\ result = None /\ calls = 0 /\ results = <<>>
    /\ stdout = <<>>
    /\ last_op = NoOp
    /\ debug_pc = "idle" /\ stations_data = <<>> /\ lookup_db = <<>>
    /\ user_input = None /\ normalized = None /\ check_digit = None
    /\ io = NoIo

NextRebuild == rebuild_stations_main

SpecRebuild == InitRebuild /\ [][NextRebuild]_vars

(***************************************************************************)
(* analyze_station_coverage and show_coverage: the range grouping, the     *)
(* coverage of the 03-57 and 03-58 series in the markdown file and in the  *)
(* table, and their comparison.                                            *)
(***************************************************************************)
LastExpected == 63      \* expected_range=(1, 63)

\* str(start) or f"{start}-{end}"
RenderRange(start, end) ==
    IF start = end THEN Str(start) ELSE Str(start) \o <<"-">> \o Str(end)

\* analyze_station_coverage.py lines 92-109 and 116-133, show_coverage.py
\* lines 42-59: the same loop over a list of numbers that is not empty.
RECURSIVE GroupFrom(_, _, _, _, _)
GroupFrom(nums, i, start, end, ranges) ==
    IF i > Len(nums) THEN Append(ranges, RenderRange(start, end))
    ELSE IF nums[i] = end + 1 THEN GroupFrom(nums, i + 1, start, nums[i], ranges)
    ELSE GroupFrom(nums, i + 1, nums[i], nums[i],
                   Append(ranges, RenderRange(start, end)))

GroupRanges(nums) == GroupFrom(nums, 2, nums[1], nums[1], <<>>)

\* sorted() of a list of ints, equal numbers kept.
RECURSIVE InsertInt(_, _)
InsertInt(sorted, n) ==
    IF sorted = <<>> THEN <<n>>
    ELSE IF n < Head(sorted) THEN <<n>> \o sorted
    ELSE <<Head(sorted)>> \o InsertInt(Tail(sorted), n)

RECURSIVE SortInts(_)
SortInts(nums) ==
    IF nums = <<>> THEN <<>>
    ELSE InsertInt(SortInts(SubSeq(nums, 1, Len(nums) - 1)), nums[Len(nums)])

\* The keys of a dict, in insertion order.
Keys(d) == [i \in 1..Len(d) |-> d[i][1]]

\* Lines 20-38: the matches of ^(03-NN-(\d{2})-01)--(\d+) for one series,
\* keyed by int(station_num); a later line of the same station replaces the
\* earlier one.
RECURSIVE MarkdownSeries(_, _, _)
MarkdownSeries(lines, series, stations) ==
    IF lines = <<>> THEN stations
    ELSE IF LineMatches(Head(lines)) /\ SubSeq(Head(lines), 4, 5) = series
    THEN MarkdownSeries(Tail(lines), series,
             DictSet(stations, ParseInt(SubSeq(Head(lines), 7, 8)),
                     <<SubSeq(Head(lines), 1, 11), DigitRun(Head(lines), 14)>>))
    ELSE MarkdownSeries(Tail(lines), series, stations)

\* (None, None) when the file is missing.
analyze_markdown_coverage(file) ==
    IF ~file.exists THEN [read |-> FALSE, raised |-> FALSE, s57 |-> <<>>, s58 |-> <<>>]
    ELSE [read |-> TRUE, raised |-> FALSE,
          s57 |-> MarkdownSeries(file.lines, <<"5", "7">>, <<>>),
          s58 |-> MarkdownSeries(file.lines, <<"5", "8">>, <<>>)]

\* station.split('-')[2] raises IndexError and int() raises ValueError.
StationNumRaises(station) ==
    Len(Split(station)) < 3 \/ ~IsDigit(Split(station)[3])

StartsWith(s, prefix) == Len(s) >= Len(prefix) /\ SubSeq(s, 1, Len(prefix)) = prefix

\* Lines 53-68 of analyze_csv_coverage.
RECURSIVE CsvSeries(_, _, _, _)
CsvSeries(file, rows, s57, s58) ==
    IF rows = <<>> THEN [read |-> TRUE, raised |-> FALSE, s57 |-> s57, s58 |-> s58]
    ELSE LET station == Field(file, Head(rows), station_number)
             digit == Field(file, Head(rows), check_digit_col)
         IN  IF StartsWith(station, <<"0", "3", "-", "5", "7", "-">>)
             THEN IF StationNumRaises(station)
                  THEN [read |-> FALSE, raised |-> TRUE, s57 |-> s57, s58 |-> s58]
                  ELSE CsvSeries(file, Tail(rows),
                           DictSet(s57, ParseInt(Split(station)[3]), <<station, digit>>), s58)
             ELSE IF StartsWith(station, <<"0", "3", "-", "5", "8", "-">>)
             THEN IF StationNumRaises(station)
                  THEN [read |-> FALSE, raised |-> TRUE, s57 |-> s57, s58 |-> s58]
                  ELSE CsvSeries(file, Tail(rows), s57,
                           DictSet(s58, ParseInt(Split(station)[3]), <<station, digit>>))
             ELSE CsvSeries(file, Tail(rows), s57, s58)

\* (None, None) when the file is missing; a missing column raises KeyError.
analyze_csv_coverage(file) ==
    IF ~file.exists THEN [read |-> FALSE, raised |-> FALSE, s57 |-> <<>>, s58 |-> <<>>]
    ELSE IF ReadRaises(file) THEN [read |-> FALSE, raised |-> TRUE, s57 |-> <<>>, s58 |-> <<>>]
    ELSE CsvSeries(file, DataRows(file), <<>>, <<>>)

\* Lines 78-83: the missing numbers of the expected range, ascending.
MissingStations(stations_dict) ==
    SelectSeq([i \in 1..LastExpected |-> i], LAMBDA i : ~DictHas(stations_dict, i))

\* print_coverage_analysis: the two lists of ranges it prints.
print_coverage_analysis(series_name, stations_dict) ==
    [series_name |-> series_name,
     available |-> IF stations_dict = <<>> THEN <<>>
                   ELSE GroupRanges(SortInts(Keys(stations_dict))),
     missing |-> IF MissingStations(stations_dict) = <<>> THEN <<>>
                 ELSE GroupRanges(MissingStations(stations_dict))]

\* all([md_57, md_58, csv_57, csv_58]): None and {} are false.
AllTrue(md, csv) ==
    /\ md.read /\ csv.read
    /\ md.s57 # <<>> /\ md.s58 # <<>> /\ csv.s57 # <<>> /\ csv.s58 # <<>>

\* main, lines 143-174; the script ends with a traceback when
\* analyze_csv_coverage raises.
analyze_station_coverage_main ==
    LET md == analyze_markdown_coverage(complete_md)
        csv == analyze_csv_coverage(csv_file)
        compared == ~csv.raised /\ AllTrue(md, csv)
    IN  /\ csv_idle
        /\ last_op' =
               [name |-> "analyze_station_coverage",
                raised |-> csv.raised,
                md |-> md, csv |-> csv,
                reports |->
                    (IF md.read
                     THEN <<print_coverage_analysis("03-57 Series (Markdown)", md.s57),
                            print_coverage_analysis("03-58 Series (Markdown)", md.s58)>>
                     ELSE <<>>)
                    \o (IF csv.read
                        THEN <<print_coverage_analysis("03-57 Series (CSV)", csv.s57),
                               print_coverage_analysis("03-58 Series (CSV)", csv.s58)>>
                        ELSE <<>>),
                compared |-> compared,
                verdict |-> IF ~compared THEN "none"
                            ELSE IF /\ Len(md.s57) = Len(csv.s57)
                                    /\ Len(md.s58) = Len(csv.s58)
                            THEN "correct" ELSE "mismatch"]
        /\ UNCHANGED <<normVars, stdout, csv_file, debugVars, fileVars>>

\* show_coverage.py lines 15-28: the station numbers of every series, in row
\* order; parts[2] raises IndexError and int() raises ValueError.
RECURSIVE ShowSeries(_, _, _)
ShowSeries(file, rows, series_data) ==
    IF rows = <<>> THEN [raised |-> FALSE, series_data |-> series_data]
    ELSE LET station == Field(file, Head(rows), station_number)
             parts == Split(station)
         IN  IF Len(parts) >= 2
             THEN IF StationNumRaises(station)
                  THEN [raised |-> TRUE, series_data |-> series_data]
                  ELSE ShowSeries(file, Tail(rows),
                           DictSet(series_data, parts[2],
                                   (IF DictHas(series_data, parts[2])
                                    THEN DictGet(series_data, parts[2]) ELSE <<>>)
                                   \o <<ParseInt(parts[3])>>))
             ELSE ShowSeries(file, Tail(rows), series_data)

\* Lines 32-61: for every series in ascending order, its count and ranges;
\* sorted(series_data[series]) puts the station numbers in ascending order.
ShowReports(series_data) ==
    LET sorted == SortByFirst(series_data)
    IN  [k \in 1..Len(sorted) |->
            [series |-> sorted[k][1],
             count |-> Len(sorted[k][2]),
             ranges |-> GroupRanges(SortInts(sorted[k][2]))]]

\* show_coverage opens the table without a test: a missing file or a missing
\* column ends the script with a traceback.
show_coverage ==
    LET raised == ~csv_file.exists \/ ReadRaises(csv_file)
        shown == IF raised THEN [raised |-> TRUE, series_data |-> <<>>]
                 ELSE ShowSeries(csv_file, DataRows(csv_file), <<>>)
    IN  /\ csv_idle
        /\ last_op' = [name |-> "show_coverage",
                       raised |-> shown.raised,
                       reports |-> IF shown.raised THEN <<>>
                                   ELSE ShowReports(shown.series_data)]
        /\ UNCHANGED <<normVars, stdout, csv_file, debugVars, fileVars>>

\* Lines of station-numbers-complete.md for the two series.
CoverageLineSet ==
    { <<"0", "3", "-", "5", "7", "-", "0", "1", "-", "0", "1", "-", "-", "4", "2">>,
      <<"0", "3", "-", "5", "8", "-", "0", "1", "-", "0", "1", "-", "-", "4", "2">>,
      <<"0", "3", "-", "5", "8", "-", "0", "2", "-", "0", "1", "-", "-", "7">>,
      <<"0", "3", "-", "5", "8", "-", "0", "4", "-", "0", "1", "-", "-">> }

CoverageMdFiles ==
    {NoText} \cup
    UNION { { [exists |-> TRUE, lines |-> f] : f \in [1..n -> CoverageLineSet] }
              : n \in 0..MaxLines }

\* Rows of a table that update_android_csv wrote or that was edited by hand:
\* a station may be in two rows.
CoverageRowSet ==
    { <<<<"0", "3", "-", "5", "7", "-", "0", "2", "-", "0", "1">>, <<"4", "2">>>>,
      <<<<"0", "3", "-", "5", "8", "-", "0", "1", "-", "0", "1">>, <<"4", "2">>>>,
      <<<<"0", "3", "-", "5", "8", "-", "0", "1", "-", "0", "1">>, <<"7">>>>,
      <<<<"0", "3", "-", "5", "8", "-", "0", "2", "-", "0", "1">>, <<"7">>>>,
      <<<<"0", "3", "-", "5", "8", "-", "0", "4", "-", "0", "1">>, <<"4", "2">>>>,
      <<<<"0", "3", "-", "4", "0", "-", "1", "5", "-", "0", "1">>, <<"7">>>> }

CoverageTables ==
    {NoTable} \cup
    UNION { { [exists |-> TRUE, rows |-> <<Header>> \o f] : f \in [1..n -> CoverageRowSet] }
              : n \in 0..MaxRows }

InitCoverage ==
    /\ complete_md \in CoverageMdFiles
    /\ csv_file \in CoverageTables
    /\ input_str = <<>> /\ result = None /\ calls = 0 /\ results = <<>>
    /\ stdout = <<>>
    /\ last_op = NoOp
    /\ debug_pc = "idle" /\ stations_data = <<>> /\ lookup_db = <<>>
    /\ user_input = None /\ normalized = None /\ check_digit = None
    /\ source_md = NoText
    /\ io = NoIo

NextCoverage ==
    \/ analyze_station_coverage_main
    \/ show_coverage

SpecCoverage == InitCoverage /\ [][NextCoverage]_vars

(***************************************************************************)
(* Properties of normalize_station_number, checked under SpecNorm.         *)
(***************************************************************************)
Called == calls > 0

\* The input, hyphens removed and trimmed, is exactly four decimal digits.
FourDigits(s) == Len(Cleaned(s)) = 4 /\ IsDigit(Cleaned(s))

BuildingOk(p) == p = <<"0", "3">> \/ p = <<"3">>
PositionOk(p) == p = <<"0", "1">> \/ p = <<"1">>

\* C1: an input whose characters, hyphens removed and trimmed, are exactly four
\* digits d1 d2 d3 d4 normalizes to "03-d1d2-d3d4-01", whatever its hyphenation.
C1_FourDigitRule ==
    (Called /\ FourDigits(input_str)) =>
        LET d == Cleaned(input_str)
        IN  result = <<"0", "3", "-", d[1], d[2], "-", d[3], d[4], "-", "0", "1">>

\* "3-5-5-1" has four parts and yet is read as the compact form 3551.
C1_Witness ==
    /\ Called
    /\ input_str = <<"3", "-", "5", "-", "5", "-", "1">>
    /\ result = <<"0", "3", "-", "3", "5", "-", "5", "1", "-", "0", "1">>

\* C2 as stated: every input that splits into exactly two parts A and S yields
\* "03-" + A padded + "-" + S padded + "-01".
C2_Original ==
    (Called /\ Len(PartsOf(input_str)) = 2) =>
        result = Canonical(Zfill(PartsOf(input_str)[1], 2), Zfill(PartsOf(input_str)[2], 2))

\* C2 amended: the same, for two-part inputs that are not four digits once the
\* hyphen is removed (those are taken by the compact rule first).
C2_TwoParts ==
    (Called /\ Len(PartsOf(input_str)) = 2 /\ ~FourDigits(input_str)) =>
        result = Canonical(Zfill(PartsOf(input_str)[1], 2), Zfill(PartsOf(input_str)[2], 2))

C2_Witness ==
    /\ Called
    /\ input_str = <<"5", "-", "1">>
    /\ result = <<"0", "3", "-", "0", "5", "-", "0", "1", "-", "0", "1">>

\* C3 as stated: every three-part input whose first part is "3" or "03" yields
\* the canonical form of its second and third parts, each padded to two.
C3_Original ==
    (Called /\ Len(PartsOf(input_str)) = 3 /\ BuildingOk(PartsOf(input_str)[1])) =>
        result = Canonical(Zfill(PartsOf(input_str)[2], 2), Zfill(PartsOf(input_str)[3], 2))

\* C3 amended: the same, for inputs that are not four digits once the hyphens
\* are removed.
C3_ThreeParts ==
    (Called /\ Len(PartsOf(input_str)) = 3 /\ BuildingOk(PartsOf(input_str)[1])
        /\ ~FourDigits(input_str)) =>
        result = Canonical(Zfill(PartsOf(input_str)[2], 2), Zfill(PartsOf(input_str)[3], 2))

C3_Witness ==
    /\ Called
    /\ input_str = <<"0", "3", "-", "5", "-", "2", "2">>
    /\ result = <<"0", "3", "-", "0", "5", "-", "2", "2", "-", "0", "1">>

\* C4 as stated: every four-part input with building "03"/"3" and position
\* "01"/"1" yields "03-" + aisle padded + "-" + station padded + "-01".
C4_Original ==
    (Called /\ Len(PartsOf(input_str)) = 4 /\ BuildingOk(PartsOf(input_str)[1])
        /\ PositionOk(PartsOf(input_str)[4])) =>
        result = Canonical(Zfill(PartsOf(input_str)[2], 2), Zfill(PartsOf(input_str)[3], 2))

\* C4 amended: the same, for inputs that are not four digits once the hyphens
\* are removed.
C4_FourParts ==
    (Called /\ Len(PartsOf(input_str)) = 4 /\ BuildingOk(PartsOf(input_str)[1])
        /\ PositionOk(PartsOf(input_str)[4]) /\ ~FourDigits(input_str)) =>
        result = Canonical(Zfill(PartsOf(input_str)[2], 2), Zfill(PartsOf(input_str)[3], 2))

C4_Witness ==
    /\ Called
    /\ input_str = <<"3", "-", "5", "-", "2", "2", "-", "1">>
    /\ result = <<"0", "3", "-", "0", "5", "-", "2", "2", "-", "0", "1">>

\* C5 as stated: every four-part input whose building is neither "03" nor "3",
\* or whose position is neither "01" nor "1", is returned unchanged.
C5_Original ==
    (Called /\ Len(PartsOf(input_str)) = 4
        /\ (~BuildingOk(PartsOf(input_str)[1]) \/ ~PositionOk(PartsOf(input_str)[4]))) =>
        result = input_str

\* C5 amended: the same, for inputs that are not four digits once the hyphens
\* are removed.
C5_Rejected ==
    (Called /\ Len(PartsOf(input_str)) = 4
        /\ (~BuildingOk(PartsOf(input_str)[1]) \/ ~PositionOk(PartsOf(input_str)[4]))
        /\ ~FourDigits(input_str)) =>
        result = input_str

C5_Witness ==
    /\ Called
    /\ input_str = <<"0", "4", "-", "5", "8", "-", "2", "2", "-", "0", "1">>
    /\ result = input_str

\* C6: a canonical code "03-AA-SS-01" is returned exactly as given.
C6_FixedPoint == (Called /\ IsCanonical(input_str)) => result = input_str

C6_Witness ==
    /\ Called
    /\ input_str = <<"0", "3", "-", "5", "8", "-", "2", "2", "-", "0", "1">>
    /\ result = input_str

\* C7 as stated: the result is a canonical code or the input unchanged.
C7_Original == Called => (IsCanonical(result) \/ result = input_str)

\* "03-X-Y-01" with X and Y free of hyphens and at least two characters long.
IsFramed(r) ==
    LET p == Split(r)
    IN  /\ Len(p) = 4
        /\ p[1] = <<"0", "3">>
        /\ p[4] = <<"0", "1">>
        /\ Len(p[2]) >= 2
        /\ Len(p[3]) >= 2

\* Every part of the input, trimmed, is at most two digits (possibly none).
ShortDigitParts(s) ==
    \A i \in 1..Len(PartsOf(s)) :
        /\ Len(PartsOf(s)[i]) <= 2
        /\ \A j \in 1..Len(PartsOf(s)[i]) : PartsOf(s)[i][j] \in Digits

\* C7 amended: the result is the input unchanged or a string "03-X-Y-01" whose
\* X and Y have no hyphen and at least two characters; it is a canonical code
\* whenever every part of the input is at most two digits.
C7_ResultShape ==
    Called =>
        /\ result = input_str \/ IsFramed(result)
        /\ ShortDigitParts(input_str) => (result = input_str \/ IsCanonical(result))

\* "a-5" comes back as "03-0a-05-01": framed, neither canonical nor the input.
C7_Witness ==
    /\ Called
    /\ input_str = <<"a", "-", "5">>
    /\ result = <<"0", "3", "-", "0", "a", "-", "0", "5", "-", "0", "1">>
    /\ ~IsCanonical(result)

TwoDigits(s) == Len(s) = 2 /\ s[1] \in Digits /\ s[2] \in Digits

\* The (AA, SS) pairs of which u is one of the five input forms.
FormPairs(u) ==
    { p \in { <<SubSeq(u, i, i + 1), SubSeq(u, j, j + 1)>> :
                  i \in 1..(Len(u) - 1), j \in 1..(Len(u) - 1) } :
          TwoDigits(p[1]) /\ TwoDigits(p[2]) /\ u \in Forms(p[1], p[2]) }

LookedUp == debug_pc = "lookup" /\ user_input # None

\* C9: each of the forms "AASS", "AA-SS", "03-AA-SS", "3-AA-SS-1" and
\* "03-AA-SS-01" normalizes to the key "03-AA-SS-01", and when the table that
\* was loaded holds that station the lookup returns the table's check digit.
C9_FormsFindStation ==
    LookedUp =>
        \A p \in FormPairs(user_input) :
            LET key == <<"0", "3", "-">> \o p[1] \o <<"-">> \o p[2] \o <<"-", "0", "1">>
            IN  /\ normalized = key
                /\ \A i \in 1..Len(lookup_db) :
                       lookup_db[i][1] = key => check_digit = lookup_db[i][2]
                /\ \A i \in 2..Len(csv_file.rows) :
                       csv_file.rows[i][1] = key => check_digit = csv_file.rows[i][2]

\* "3-58-22-1" finds the check digit 42 stored under "03-58-22-01".
C9_Witness ==
    /\ LookedUp
    /\ user_input = <<"3", "-", "5", "8", "-", "2", "2", "-", "1">>
    /\ \E i \in 2..Len(csv_file.rows) :
           csv_file.rows[i] = << <<"0", "3", "-", "5", "8", "-", "2", "2", "-", "0", "1">>,
                                 <<"4", "2">> >>
    /\ check_digit = <<"4", "2">>

Updated == last_op.name = "update_android_csv" /\ last_op.returned

\* The station numbers in the data rows of a table.
CodesOf(file) ==
    IF file.exists THEN {file.rows[i][1] : i \in 2..Len(file.rows)} ELSE {}

\* The station numbers among the markdown pairs.
CodesIn(data) == {data[i][1] : i \in 1..Len(data)}

\* The check digit of the last markdown pair for a station.
LastDigit(data, code) ==
    data[CHOOSE i \in 1..Len(data) :
             /\ data[i][1] = code
             /\ \A j \in (i + 1)..Len(data) : data[j][1] # code][2]

\* C10: after update_android_csv, every code of the markdown records is in
\* exactly one row of the table, with the markdown's check digit (also when the
\* old table held another one), and the number of data rows is the number of
\* distinct codes of the old table and the markdown records together.
C10_MarkdownWins ==
    Updated =>
        /\ \A code \in CodesIn(last_op.station_data) :
               /\ Cardinality({i \in 2..Len(csv_file.rows) : csv_file.rows[i][1] = code}) = 1
               /\ \A i \in 2..Len(csv_file.rows) :
                      csv_file.rows[i][1] = code =>
                          csv_file.rows[i][2] = LastDigit(last_op.station_data, code)
        /\ Len(csv_file.rows) - 1 =
               Cardinality(CodesOf(last_op.before) \cup CodesIn(last_op.station_data))
        /\ last_op.total = Len(csv_file.rows) - 1

\* A run that replaced 42 by 7 for a code that was already in the table.
C10_Witness ==
    /\ Updated
    /\ \E i \in 2..Len(last_op.before.rows), j \in 2..Len(csv_file.rows) :
           /\ last_op.before.rows[i][1] = csv_file.rows[j][1]
           /\ last_op.before.rows[i][1] \in CodesIn(last_op.station_data)
           /\ last_op.before.rows[i][2] = <<"4", "2">>
           /\ csv_file.rows[j][2] = <<"7">>
    /\ last_op.updated_count > 0

(***************************************************************************)
(* Properties of update_station_csv run on a document, checked under       *)
(* SpecMd.                                                                 *)
(***************************************************************************)
\* The pairs of a list of pairs or of the items of a dict.
PairSet(data) == {data[i] : i \in 1..Len(data)}

\* The table holds every station number in at most one data row.
NoCodeTwice(file) ==
    \A i, j \in 2..Len(file.rows) :
        file.rows[i][1] = file.rows[j][1] => i = j

\* The pairs a document gives when each code keeps its last check digit.
LastPairs(data) ==
    {<<code, LastDigit(data, code)>> : code \in CodesIn(data)}

\* The items of the old table whose code the document does not list.
KeptPairs(before, data) ==
    {pr \in PairSet(ReadExisting(before)) : pr[1] \notin CodesIn(data)}

\* C11 as stated: after a successful run the pairs parsed again from the
\* table are the same set as the pairs extracted from the document, and no
\* code is in two rows.
C11_Original ==
    Updated =>
        /\ PairSet(ReadExisting(csv_file)) = PairSet(last_op.station_data)
        /\ NoCodeTwice(csv_file)

\* C11: after a successful run no code is in two rows, and the pairs parsed
\* again from the table are, for every extracted code, its last extracted
\* check digit, together with the old pairs of the codes the document does not
\* list; they are the extracted set when the table was absent or empty before
\* and the document gives no code two different check digits.
C11_RoundTrip ==
    Updated =>
        /\ NoCodeTwice(csv_file)
        /\ PairSet(ReadExisting(csv_file)) =
               LastPairs(last_op.station_data)
                   \cup KeptPairs(last_op.before, last_op.station_data)
        /\ (/\ ReadExisting(last_op.before) = <<>>
            /\ LastPairs(last_op.station_data) = PairSet(last_op.station_data))
           => PairSet(ReadExisting(csv_file)) = PairSet(last_op.station_data)

\* A run from no table on a document of two different codes: the table gives
\* back both pairs.
C11_Witness ==
    /\ Updated
    /\ ~last_op.before.exists
    /\ Cardinality(PairSet(last_op.station_data)) = 2
    /\ Cardinality(CodesIn(last_op.station_data)) = 2
    /\ PairSet(ReadExisting(csv_file)) = PairSet(last_op.station_data)

\* A line that starts with a canonical code, "--" and a digit.
HasCheckDigit(line) ==
    /\ Len(line) >= 14
    /\ SubSeq(line, 1, 3) = <<"0", "3", "-">>
    /\ line[4] \in Digits /\ line[5] \in Digits /\ line[6] = "-"
    /\ line[7] \in Digits /\ line[8] \in Digits
    /\ SubSeq(line, 9, 13) = <<"-", "0", "1", "-", "-">>
    /\ line[14] \in Digits

MainRan == last_op.name \in {"update_station_csv", "update_android_csv"}

\* C16: when the document is missing or none of its lines holds a check digit,
\* main stops with status 1 before update_android_csv is called and the table
\* is as it was: not created, not truncated, not rewritten.
C16_NoDataNoWrite ==
    (/\ MainRan
     /\ \/ ~complete_md.exists
        \/ \A i \in 1..Len(complete_md.lines) : ~HasCheckDigit(complete_md.lines[i]))
    => /\ last_op.name = "update_station_csv"
       /\ ExitStatus(last_op) = 1
       /\ csv_file = last_op.before

\* main ran on a document of template lines only while a table existed.
C16_Witness ==
    /\ last_op.name = "update_station_csv"
    /\ complete_md.exists
    /\ complete_md.lines # <<>>
    /\ \A i \in 1..Len(complete_md.lines) : complete_md.lines[i] = <<"0", "3", "-", "4", "0", "-", "1", "5", "-", "0", "1", "-", "-">>
    /\ csv_file.exists
    /\ csv_file = last_op.before

\* A line that is a canonical code, "--" and digits, and nothing else.
ExactShape(line) ==
    /\ HasCheckDigit(line)
    /\ \A i \in 14..Len(line) : line[i] \in Digits

RECURSIVE ExactShapePairs(_)
ExactShapePairs(lines) ==
    IF lines = <<>> THEN <<>>
    ELSE (IF ExactShape(Head(lines))
          THEN << <<SubSeq(Head(lines), 1, 11), SubSeq(Head(lines), 14, Len(Head(lines)))>> >>
          ELSE <<>>)
         \o ExactShapePairs(Tail(lines))

\* C18: the extraction gives, in document order, one pair for each line that
\* is exactly a canonical code, "--" and digits, and nothing for any other
\* line (a template line, a header, an indented line, a line with more text).
C18_ExactLines ==
    /\ last_op.name = "update_android_csv"
           => last_op.station_data = ExactShapePairs(complete_md.lines)
    /\ (last_op.name = "update_station_csv" /\ complete_md.exists)
           => ExactShapePairs(complete_md.lines) = <<>>

(***************************************************************************)
(* Properties of the table after runs of update_android_csv and            *)
(* add_aisle_to_csv from an absent table, checked under Spec.              *)
(***************************************************************************)
\* C12: the table is the header row station_number,check_digit followed by
\* data rows in ascending order of the station_number string (rows of the same
\* station number are next to each other).
C12_HeaderThenSorted ==
    csv_file.exists =>
        /\ csv_file.rows # <<>>
        /\ csv_file.rows[1] = <<<<"s", "t", "a", "t", "i", "o", "n", "_", "n", "u", "m", "b", "e", "r">>, <<"c", "h", "e", "c", "k", "_", "d", "i", "g", "i", "t">>>>
        /\ \A i \in 2..(Len(csv_file.rows) - 1) :
               ~StrLess(csv_file.rows[i + 1][1], csv_file.rows[i][1])

\* A run whose records came in descending order wrote them in ascending order.
C12_Witness ==
    /\ Updated
    /\ Len(last_op.station_data) = 2
    /\ last_op.station_data[1][1] = <<"0", "3", "-", "5", "8", "-", "2", "2", "-", "0", "1">>
    /\ last_op.station_data[2][1] = <<"0", "3", "-", "4", "0", "-", "1", "5", "-", "0", "1">>
    /\ Len(csv_file.rows) = 3
    /\ csv_file.rows[2][1] = <<"0", "3", "-", "4", "0", "-", "1", "5", "-", "0", "1">>
    /\ csv_file.rows[3][1] = <<"0", "3", "-", "5", "8", "-", "2", "2", "-", "0", "1">>

\* C13: every station_number of the table is in the canonical form
\* 03-AA-SS-01.
C13_CanonicalCodes ==
    csv_file.exists =>
        \A i \in 2..Len(csv_file.rows) : IsCanonical(csv_file.rows[i][1])

\* C14: no station_number is in more than one row of the table, also after
\* the same aisle was added twice.
C14_UniqueCodes ==
    csv_file.exists =>
        \A i \in 2..Len(csv_file.rows) :
            Cardinality({j \in 2..Len(csv_file.rows) :
                             csv_file.rows[j][1] = csv_file.rows[i][1]}) = 1

\* The positions of a check-digit list that hold a number.
Provided(check_digits) == {i \in 1..Len(check_digits) : ~check_digits[i].is_none}

\* C19: add_aisle_to_csv adds the row (aisle-ii, number) for every position i
\* that holds a number, 0 included, adds nothing for a position that holds
\* None, and the number of rows added is the number of entries that are not
\* None.
C19_RowPerNumber ==
    last_op.name = "add_aisle_to_csv" =>
        /\ last_op.added = Cardinality(Provided(last_op.check_digits))
        /\ Len(csv_file.rows) =
               (IF last_op.before.exists THEN Len(last_op.before.rows) ELSE 1)
                   + Cardinality(Provided(last_op.check_digits))
        /\ \A i \in Provided(last_op.check_digits) :
               \E j \in 2..Len(csv_file.rows) :
                   csv_file.rows[j] =
                       <<Format02d(last_op.aisle_number) \o <<"-">> \o Format02d(i),
                         Str(last_op.check_digits[i].value)>>

(***************************************************************************)
(* The rewrite of the table when a run fails, checked under SpecIO.        *)
(***************************************************************************)
\* C15: when update_android_csv or add_aisle_to_csv has failed, while reading,
\* merging or part-way through writing, the table on disk is the complete old
\* content or the complete new content.
C15_OldOrNew ==
    io.pc = "failed" =>
        \/ csv_file = io.old
        \/ csv_file = [exists |-> TRUE, rows |-> io.new]

(***************************************************************************)
(* Properties of analyze_csv_data on a hand-edited table, checked under    *)
(* SpecAnalyze.                                                            *)
(***************************************************************************)
\* A row with both fields, a canonical station and a numeric check digit.
ValidRow(row) ==
    /\ Len(row) >= 2
    /\ IsCanonical(row[1])
    /\ row[2] # <<>>
    /\ \A i \in 1..Len(row[2]) : row[2][i] \in Digits

\* The (station, check digit) pairs of the returned station data.
LoadedPairs(stations) ==
    UNION { PairSet(stations[k][2]) : k \in 1..Len(stations) }

\* C17: after analyze_csv_data, every malformed row of the table (a missing
\* column, an empty field, a station that is not canonical, a check digit that
\* is not a number) is in the issue list with its row number, and every valid
\* row is in the returned station data.
C17_MalformedRowsReported ==
    (last_op.name = "debug_station_lookup" /\ csv_file.exists) =>
        \A i \in 2..Len(csv_file.rows) :
            IF ValidRow(csv_file.rows[i])
            THEN <<csv_file.rows[i][1], csv_file.rows[i][2]>> \in LoadedPairs(last_op.stations)
            ELSE \E k \in 1..Len(last_op.issues) : last_op.issues[k].row = i

(***************************************************************************)
(* Properties of the file rebuild_stations writes, checked under           *)
(* SpecRebuild.                                                            *)
(***************************************************************************)
\* The number of lines starting with 03- from line i up to the first line
\* that does not.
RECURSIVE StationLinesFrom(_, _)
StationLinesFrom(lines, i) ==
    IF i <= Len(lines) /\ StartsWith03(lines[i])
    THEN 1 + StationLinesFrom(lines, i + 1)
    ELSE 0

\* C20: in the generated file every one of the 58 district sections holds
\* exactly 63 station lines, and the file holds 58 * 63 = 3654 station lines,
\* as its summary says, whatever the source file was.
C20_MatchesSummary ==
    last_op.name = "rebuild_stations" =>
        /\ \A aisle \in 1..58 :
               \E i \in 1..Len(complete_md.lines) :
                   /\ complete_md.lines[i] =
                          <<"#", "#", " ", "D", "i", "s", "t", "r", "i", "c", "t", " ", "0", "3", "-">> \o Format02d(aisle) \o <<" ", "S", "e", "r", "i", "e", "s">>
                   /\ StationLinesFrom(complete_md.lines, i + 1) = 63
        /\ Cardinality({i \in 1..Len(complete_md.lines) :
                            StartsWith03(complete_md.lines[i])}) = 3654
        /\ complete_md.lines[Len(complete_md.lines)] =
               <<"-", " ", "T", "o", "t", "a", "l", " ", "s", "t", "a", "t", "i", "o", "n", "s", ":", " ", "3", "6", "5", "4", " ", "s", "t", "a", "t", "i", "o", "n", "s">>

\* The station lines under the headers of district aisle in a source document:
\* with strip, what is left of the line once stripped; without, the line when
\* it starts with 03- as it is.
RECURSIVE SourceUnder(_, _, _, _)
SourceUnder(lines, current, aisle, strip) ==
    IF lines = <<>> THEN <<>>
    ELSE IF IsHeaderLine(Head(lines))
    THEN SourceUnder(Tail(lines), HeaderDistrict(Head(lines)), aisle, strip)
    ELSE IF /\ current = aisle
            /\ StartsWith03(IF strip THEN Strip(Head(lines)) ELSE Head(lines))
    THEN <<IF strip THEN Strip(Head(lines)) ELSE Head(lines)>>
         \o SourceUnder(Tail(lines), current, aisle, strip)
    ELSE SourceUnder(Tail(lines), current, aisle, strip)

\* The districts a source document names in its headers.
SourceDistricts(lines) ==
    {HeaderDistrict(lines[i]) : i \in {j \in 1..Len(lines) : IsHeaderLine(lines[j])}}

\* The positions of the section headers in the generated file.
HeaderPositions(lines) ==
    SelectSeq([i \in 1..Len(lines) |-> i], LAMBDA i : IsHeaderLine(lines[i]))

\* The station lines of the generated file under the header of a district.
GeneratedUnder(lines, aisle) ==
    LET at == {i \in 1..Len(lines) :
                   lines[i] = <<"#", "#", " ", "D", "i", "s", "t", "r", "i", "c", "t", " ", "0", "3", "-">> \o Format02d(aisle) \o <<" ", "S", "e", "r", "i", "e", "s">>}
    IN  IF at = {} THEN <<>>
        ELSE LET i == CHOOSE k \in at : \A m \in at : k <= m
             IN  SubSeq(lines, i + 1, i + StationLinesFrom(lines, i + 1))

\* s is t with some of its elements left out.
RECURSIVE IsSubsequence(_, _)
IsSubsequence(s, t) ==
    IF s = <<>> THEN TRUE
    ELSE IF t = <<>> THEN FALSE
    ELSE IF Head(s) = Head(t) THEN IsSubsequence(Tail(s), Tail(t))
    ELSE IsSubsequence(s, Tail(t))

\* C21: the generated file holds the headers of the districts 01 to 58, each
\* once, in ascending order, and no other district header; a district without
\* station lines in the source has the 63 template lines 03-AA-01-01-- to
\* 03-AA-63-01-- under its header, in ascending order.
C21_HeadersAndTemplates ==
    last_op.name = "rebuild_stations" =>
        LET positions == HeaderPositions(complete_md.lines)
        IN  /\ Len(positions) = 58
            /\ \A aisle \in 1..58 :
                   /\ complete_md.lines[positions[aisle]] =
                          <<"#", "#", " ", "D", "i", "s", "t", "r", "i", "c", "t", " ", "0", "3", "-">> \o Format02d(aisle) \o <<" ", "S", "e", "r", "i", "e", "s">>
                   /\ SourceUnder(source_md.lines, 0, aisle, TRUE) = <<>>
                      => /\ StationLinesFrom(complete_md.lines, positions[aisle] + 1) = 63
                         /\ \A station \in 1..63 :
                                complete_md.lines[positions[aisle] + station] =
                                    <<"0", "3", "-">> \o Format02d(aisle) \o <<"-">>
                                        \o Format02d(station) \o <<"-", "0", "1", "-", "-">>

\* C22: every station line under a district header of the source file is in
\* the generated file under the header of the same district, in the same
\* relative order, also when the header occurs more than once in the source or
\* names a district outside 01-58.
C22_NoLineLost ==
    last_op.name = "rebuild_stations" =>
        \A aisle \in SourceDistricts(source_md.lines) :
            IsSubsequence(SourceUnder(source_md.lines, 0, aisle, FALSE),
                          GeneratedUnder(complete_md.lines, aisle))

(***************************************************************************)
(* Properties of analyze_station_coverage and show_coverage, checked under *)
(* SpecCoverage.                                                           *)
(***************************************************************************)
\* The 03-57 and 03-58 stations the markdown file gives a check digit.
MarkdownStations(file) ==
    IF ~file.exists THEN {}
    ELSE {SubSeq(file.lines[i], 1, 11) :
              i \in {j \in 1..Len(file.lines) :
                         /\ HasCheckDigit(file.lines[j])
                         /\ SubSeq(file.lines[j], 4, 5) \in {<<"5", "7">>, <<"5", "8">>}}}

\* C23: when analyze_station_coverage reports that the CSV file correctly
\* contains all stations from the markdown file, every 03-57 and 03-58 station
\* of the markdown file is in the table; and the comparison is made whenever
\* both files were read, also when one of the four series is empty.
C23_VerdictMeansCoverage ==
    last_op.name = "analyze_station_coverage" =>
        /\ last_op.verdict = "correct"
               => MarkdownStations(complete_md) \subseteq CodesOf(csv_file)
        /\ (last_op.md.read /\ last_op.csv.read) => last_op.compared

\* The numbers a rendered range stands for: "a" or "a-b".
RangeNumbers(text) ==
    LET parts == Split(text)
    IN  IF Len(parts) = 1 THEN {ParseInt(parts[1])}
        ELSE ParseInt(parts[1])..ParseInt(parts[2])

RangeStart(text) == ParseInt(Split(text)[1])

RangeEnd(text) == ParseInt(Split(text)[Len(Split(text))])

\* The ranges are ascending, pairwise disjoint, maximal runs of consecutive
\* numbers, and together they are the numbers given.
RunsOf(ranges, numbers) ==
    /\ \A k \in 1..Len(ranges) : RangeStart(ranges[k]) <= RangeEnd(ranges[k])
    /\ \A k \in 1..(Len(ranges) - 1) : RangeEnd(ranges[k]) + 1 < RangeStart(ranges[k + 1])
    /\ UNION {RangeNumbers(ranges[k]) : k \in 1..Len(ranges)} = numbers

\* The station numbers of the rows of a series in the table.
TableNumbers(file, series) ==
    {ParseInt(Split(file.rows[i][1])[3]) :
         i \in {j \in 2..Len(file.rows) : Split(file.rows[j][1])[2] = series}}

\* The station numbers of a series the markdown file gives a check digit.
MarkdownNumbers(file, series) ==
    {ParseInt(SubSeq(s, 7, 8)) : s \in {c \in MarkdownStations(file) : SubSeq(c, 4, 5) = series}}

ReportNumbers(series_name) ==
    CASE series_name = "03-57 Series (Markdown)" -> MarkdownNumbers(complete_md, <<"5", "7">>)
      [] series_name = "03-58 Series (Markdown)" -> MarkdownNumbers(complete_md, <<"5", "8">>)
      [] series_name = "03-57 Series (CSV)" -> TableNumbers(csv_file, <<"5", "7">>)
      [] series_name = "03-58 Series (CSV)" -> TableNumbers(csv_file, <<"5", "8">>)

\* C25: the ranges print_coverage_analysis and show_coverage print for a list
\* of station numbers are ascending, pairwise disjoint, maximal runs of
\* consecutive numbers whose union is the set of the numbers, also when a
\* station number is in more than one row of the table.
C25_RangesAreRuns ==
    /\ (last_op.name = "analyze_station_coverage") =>
           \A k \in 1..Len(last_op.reports) :
               /\ RunsOf(last_op.reports[k].available,
                         ReportNumbers(last_op.reports[k].series_name))
               /\ RunsOf(last_op.reports[k].missing,
                         (1..63) \ ReportNumbers(last_op.reports[k].series_name))
    /\ (last_op.name = "show_coverage" /\ ~last_op.raised) =>
           \A k \in 1..Len(last_op.reports) :
               RunsOf(last_op.reports[k].ranges,
                      TableNumbers(csv_file, last_op.reports[k].series))

(***************************************************************************)
(* The counters and the frame of update_android_csv, checked under Spec.   *)
(***************************************************************************)
\* The check digit a table gives a code.
DigitIn(file, code) == DictGet(ReadExisting(file), code)

\* C24: after update_android_csv, "New stations added" is the number of codes
\* of the table that were not in it before the run, and "Existing stations
\* updated" is the number of codes that were in it before the run and have
\* another check digit after it, also when the markdown records list a code
\* more than once.
C24_CountersExact ==
    Updated =>
        /\ last_op.new_count =
               Cardinality(CodesOf(csv_file) \ CodesOf(last_op.before))
        /\ last_op.updated_count =
               Cardinality({code \in CodesOf(last_op.before) :
                                DigitIn(last_op.before, code) # DigitIn(csv_file, code)})

====
